---------------------------- MODULE Spec2Model ----------------------------
(***************************************************************************)
(* A model of the resx-editor extension (src/src/resxEditorProvider.ts):   *)
(* the directory of .resx files on disk, the extension host's handlers     *)
(* (load, save, add key, delete key, set UI language) and the webview's    *)
(* edit buffer (updateValue, updateKey).                                   *)
(*                                                                         *)
(* Strings the code computes on (file names, culture tags, resource keys)  *)
(* are sequences of one-character strings, so that the regular expression, *)
(* path building, trim and JavaScript's property order are computed and    *)
(* not assumed.  Values and comments are opaque strings.  The XML text of  *)
(* a member file is abstracted to the sequence of its <data> elements      *)
(* (name attribute, optional <value> child, optional <comment> child); the *)
(* fixed schema/header block and the layout of the text are not modelled.  *)
(* The file system is case-sensitive: two names are the same file exactly  *)
(* when they are the same sequence of characters.                          *)
(***************************************************************************)
EXTENDS Integers, Sequences, FiniteSets, TLC

VARIABLES
    disk,       \* the directory: [key: file name, val: its <data> elements], in
                \* the order fs.readdirSync lists it
    data,       \* the webview's edit buffer: `let data = ...` of the page script
    rows,       \* the rendered <tr> of the grid: the key baked into the row's
                \* handlers and the row's dataset.key
    dialog,     \* the handler that awaits the input box or the confirmation
    last,       \* what the most recent operation did (history, for the claims)
    pair,       \* the buffer/disk before the previous operation (history)
    ops         \* number of user operations so far (bounded by MaxOps)

vars == <<disk, data, rows, dialog, last, pair, ops>>

-----------------------------------------------------------------------------
(* Bounds of the model *)

MaxOps == 2

(* Program constants: the {2,8} of the culture regular expression *)
MinSeg == 2
MaxSeg == 8

-----------------------------------------------------------------------------
(* Characters and strings *)

UpperChars == <<"A","B","C","D","E","F","G","H","I","J","K","L","M",
                "N","O","P","Q","R","S","T","U","V","W","X","Y","Z">>
LowerChars == <<"a","b","c","d","e","f","g","h","i","j","k","l","m",
                "n","o","p","q","r","s","t","u","v","w","x","y","z">>
DigitChars == <<"0","1","2","3","4","5","6","7","8","9">>

Range(s) == { s[i] : i \in DOMAIN s }

AlphaChars == Range(UpperChars) \cup Range(LowerChars)
DigitSet == Range(DigitChars)

\* String.prototype.toLowerCase on one ASCII character
LowerOf ==
    [c \in Range(UpperChars) |->
        LowerChars[CHOOSE i \in DOMAIN UpperChars : UpperChars[i] = c]]

ToLower(c) == IF c \in DOMAIN LowerOf THEN LowerOf[c] ELSE c

IsAlpha(c) == c \in AlphaChars
IsDigit(c) == c \in DigitSet
IsAlnum(c) == IsAlpha(c) \/ IsDigit(c)

DigitValueOf ==
    [c \in DigitSet |-> (CHOOSE i \in DOMAIN DigitChars : DigitChars[i] = c) - 1]

DigitValue(c) == DigitValueOf[c]

\* the values JavaScript's undefined / null take in the model
Absent == "<absent>"
NoMatch == << >>

Default == <<"d","e","f","a","u","l","t">>
DotResx == <<".","r","e","s","x">>

\* String.prototype.trim (the only white space in the model is the blank)
RECURSIVE TrimLeft(_)
TrimLeft(s) == IF s # << >> /\ Head(s) = " " THEN TrimLeft(Tail(s)) ELSE s

RECURSIVE TrimRight(_)
TrimRight(s) ==
    IF s # << >> /\ s[Len(s)] = " " THEN TrimRight(SubSeq(s, 1, Len(s) - 1)) ELSE s

Trim(s) == TrimRight(TrimLeft(s))

-----------------------------------------------------------------------------
(* File names *)

\* path.join(dir, `${baseFileName}.${language}.resx`)
VariantPath(baseFileName, language) == baseFileName \o <<".">> \o language \o DotResx

\* the document the editor is opened on, its en-US variant and a file of
\* another family in the same directory
BaseName == <<"A","b">>
BasePath == BaseName \o DotResx
EnUs == <<"e","n","-","U","S">>
EnUsPath == VariantPath(BaseName, EnUs)
NotesPath == <<"N","o">> \o DotResx

\* the other files a directory may hold
SiblingNames ==
    << BaseName \o <<".","e","n","-","U","S">> \o DotResx,
       BaseName \o <<".","f","r">> \o DotResx,
       <<"N","o">> \o DotResx,
       <<"a","b",".","E","N","-","u","s",".","R","E","S","X">>,
       BaseName \o <<".","z","h","-","H","a","n","s","-","C","N">> \o DotResx,
       BaseName \o <<".","e","-","U","S">> \o DotResx,
       BaseName \o <<".","e","n","-","1","2","3","4","5","6","7","8","9">> \o DotResx,
       BaseName \o <<".","e","1","-","U","S">> \o DotResx,
       BaseName \o <<".","d","e","f","a","u","l","t">> \o DotResx,
       BaseName \o <<".","e","n","-","U","S">> \o DotResx \o <<".","b","a","k">>,
       <<"A","b","x","e","n","-","U","S">> \o DotResx >>

-----------------------------------------------------------------------------
(* Family discovery: escapeRegExp and tryGetCultureFromResxFileName *)

\* escapeRegExp: every character of the base name becomes an atom of the
\* pattern that matches that character literally (any |-> TRUE would be the
\* unescaped ".", which matches any character)
escapeRegExp(input) ==
    [i \in DOMAIN input |-> [any |-> FALSE, ch |-> input[i]]]

\* one atom against one character, under the regular expression's 'i' flag
AtomMatches(atom, c) == atom.any \/ ToLower(atom.ch) = ToLower(c)

\* s.split(sep) for a one-character separator
RECURSIVE SplitOn(_, _)
SplitOn(s, sep) ==
    IF \A i \in DOMAIN s : s[i] # sep
    THEN << s >>
    ELSE LET i == CHOOSE j \in DOMAIN s : s[j] = sep /\ \A h \in 1..(j-1) : s[h] # sep
         IN  << SubSeq(s, 1, i - 1) >> \o SplitOn(SubSeq(s, i + 1, Len(s)), sep)

\* [A-Za-z]{2,8}
AlphaSegment(seg) ==
    /\ Len(seg) >= MinSeg
    /\ Len(seg) <= MaxSeg
    /\ \A i \in DOMAIN seg : IsAlpha(seg[i])

\* [A-Za-z0-9]{2,8}
AlnumSegment(seg) ==
    /\ Len(seg) >= MinSeg
    /\ Len(seg) <= MaxSeg
    /\ \A i \in DOMAIN seg : IsAlnum(seg[i])

\* the group with its hyphenated segments optional: (...)* in place of (...)+
CultureMatchesOptional(tag) ==
    LET segs == SplitOn(tag, "-")
    IN  /\ Len(segs) >= 1
        /\ AlphaSegment(segs[1])
        /\ \A i \in 2..Len(segs) : AlnumSegment(segs[i])

\* the group ([A-Za-z]{2,8}(?:-[A-Za-z0-9]{2,8})+)
CultureMatches(tag) ==
    LET segs == SplitOn(tag, "-")
    IN  /\ Len(segs) >= 2
        /\ AlphaSegment(segs[1])
        /\ \A i \in 2..Len(segs) : AlnumSegment(segs[i])

\* fileName.match(/^<escapedBase>\.(<culture>)\.resx$/i): neither character
\* class of the group holds "." and what follows the group is ".resx" up to
\* the end, so the group can only be what lies between the base and the last
\* five characters.
tryGetCultureFromResxFileName(baseFileName, fileName) ==
    LET atoms == escapeRegExp(baseFileName)
        n     == Len(atoms)
        m     == Len(fileName)
        tag   == SubSeq(fileName, n + 2, m - 5)
        ext   == SubSeq(fileName, m - 4, m)
    IN  IF /\ m >= n + 1 + 1 + 5
           /\ \A i \in 1..n : AtomMatches(atoms[i], fileName[i])
           /\ fileName[n + 1] = "."
           /\ \A i \in 1..5 : ToLower(ext[i]) = ToLower(DotResx[i])
           /\ CultureMatches(tag)
        THEN tag
        ELSE NoMatch

\* path.basename(basePath, '.resx'): the extension is cut only when it is
\* exactly ".resx"
basename(basePath) ==
    LET m == Len(basePath)
    IN  IF m > 5 /\ SubSeq(basePath, m - 4, m) = DotResx
        THEN SubSeq(basePath, 1, m - 5)
        ELSE basePath

\* tryGetCultureFromResxFileName(BaseName, f) for the file names above,
\* evaluated once
CultureTable ==
    [f \in {BasePath, EnUsPath, NotesPath} \cup Range(SiblingNames) |->
        tryGetCultureFromResxFileName(BaseName, f)]

\* this.tryGetCultureFromResxFileName(baseFileName, file) as the callers get
\* it: read from the table when the table has it, computed otherwise
cultureOf(baseFileName, fileName) ==
    IF baseFileName = BaseName /\ fileName \in DOMAIN CultureTable
    THEN CultureTable[fileName]
    ELSE tryGetCultureFromResxFileName(baseFileName, fileName)

-----------------------------------------------------------------------------
(* JavaScript containers.  A Map and a plain object are both a sequence of  *)
(* [key, val] pairs in iteration order.  A Map iterates in insertion order; *)
(* a plain object iterates its integer-like keys ("array indices") first,   *)
(* in ascending numeric order, and then its other keys in insertion order.  *)

Has(o, k) == \E i \in DOMAIN o : o[i].key = k
IndexOf(o, k) == CHOOSE i \in DOMAIN o : o[i].key = k
Get(o, k) == o[IndexOf(o, k)].val
Keys(o) == [i \in DOMAIN o |-> o[i].key]
Values(o) == [i \in DOMAIN o |-> o[i].val]
KeySet(o) == { o[i].key : i \in DOMAIN o }

\* a < b for canonical numeric strings (no leading zero): by length, then
\* digit by digit
NumLess(a, b) ==
    \/ Len(a) < Len(b)
    \/ /\ Len(a) = Len(b)
       /\ \E i \in DOMAIN a :
             /\ DigitValue(a[i]) < DigitValue(b[i])
             /\ \A h \in 1..(i - 1) : a[h] = b[h]

\* 2^32 - 1
ArrayIndexLimit == <<"4","2","9","4","9","6","7","2","9","5">>

\* an integer-like key: a canonical numeric string below 2^32 - 1
IsArrayIndex(k) ==
    /\ k # << >>
    /\ \A i \in DOMAIN k : IsDigit(k[i])
    /\ (Len(k) = 1 \/ k[1] # "0")
    /\ NumLess(k, ArrayIndexLimit)

\* map.set(k, v)
MapSet(m, k, v) ==
    IF Has(m, k) THEN [m EXCEPT ![IndexOf(m, k)].val = v]
    ELSE Append(m, [key |-> k, val |-> v])

\* a property assignment that adds the property without looking for one of
\* the same name
ObjSetAppend(o, k, v) == Append(o, [key |-> k, val |-> v])

\* obj[k] = v
ObjSet(o, k, v) ==
    IF Has(o, k) THEN [o EXCEPT ![IndexOf(o, k)].val = v]
    ELSE IF IsArrayIndex(k)
    THEN LET before == { i \in DOMAIN o :
                           IsArrayIndex(o[i].key) /\ NumLess(o[i].key, k) }
             n == Cardinality(before)
         IN  SubSeq(o, 1, n) \o << [key |-> k, val |-> v] >> \o SubSeq(o, n + 1, Len(o))
    ELSE Append(o, [key |-> k, val |-> v])

\* delete obj[k]
ObjDelete(o, k) ==
    IF Has(o, k)
    THEN LET i == IndexOf(o, k) IN SubSeq(o, 1, i - 1) \o SubSeq(o, i + 1, Len(o))
    ELSE o

\* Object.fromEntries(map), and what JSON.stringify / the object literal of
\* the page script keep of it
RECURSIVE FromEntries(_)
FromEntries(m) ==
    IF m = << >> THEN << >>
    ELSE LET e == m[Len(m)]
         IN  ObjSet(FromEntries(SubSeq(m, 1, Len(m) - 1)), e.key, e.val)

-----------------------------------------------------------------------------
(* Files.  A directory is a sequence of [key |-> file name, val |-> the     *)
(* <data> elements of the file] in listing order.  An operation runs under  *)
(* io = [bad, ro]: the files whose read or parse fails and the files whose  *)
(* write fails while it runs.                                               *)

\* a <data> element: value and comment are Absent when the child is missing
Node(name, value, comment) == [name |-> name, value |-> value, comment |-> comment]

NoFault == [bad |-> {}, ro |-> {}]

\* the loop of parseResxFile over result.root.data
RECURSIVE parseEntries(_)
parseEntries(nodes) ==
    IF nodes = << >> THEN << >>
    ELSE LET d == nodes[Len(nodes)]
             value == IF d.value # Absent THEN d.value ELSE ""
             comment == IF d.comment # Absent THEN d.comment ELSE ""
         IN  MapSet(parseEntries(SubSeq(nodes, 1, Len(nodes) - 1)), d.name,
                    [name |-> d.name, value |-> value, comment |-> comment])

\* parseResxFile: the promise is rejected when the file cannot be read or
\* parsed, and resolved with the Map of its entries otherwise
parseResxFile(fs, io, filePath) ==
    IF ~Has(fs, filePath) \/ filePath \in io.bad
    THEN [ok |-> FALSE, entries |-> << >>]
    ELSE [ok |-> TRUE, entries |-> parseEntries(Get(fs, filePath))]

\* the files of the listing that the regular expression accepts, in listing order
VariantFiles(baseFileName, files) ==
    SelectSeq(files, LAMBDA f : cultureOf(baseFileName, f) # NoMatch)

\* the loop of loadResxFiles going on to the next file when one cannot be
\* read or parsed
RECURSIVE loadVariantsSkip(_, _, _, _, _)
loadVariantsSkip(fs, io, baseFileName, files, resxFiles) ==
    IF files = << >> THEN [ok |-> TRUE, doc |-> resxFiles]
    ELSE LET language == cultureOf(baseFileName, Head(files))
             content  == parseResxFile(fs, io, Head(files))
         IN  IF language = NoMatch \/ ~content.ok
             THEN loadVariantsSkip(fs, io, baseFileName, Tail(files), resxFiles)
             ELSE loadVariantsSkip(fs, io, baseFileName, Tail(files),
                                   ObjSet(resxFiles, language, content.entries))

\* the loop of loadResxFiles over the listing
RECURSIVE loadVariants(_, _, _, _, _)
loadVariants(fs, io, baseFileName, files, resxFiles) ==
    IF files = << >> THEN [ok |-> TRUE, doc |-> resxFiles]
    ELSE LET language == cultureOf(baseFileName, Head(files))
             content  == parseResxFile(fs, io, Head(files))
         IN  IF language = NoMatch
             THEN loadVariants(fs, io, baseFileName, Tail(files), resxFiles)
             ELSE IF ~content.ok
             THEN [ok |-> FALSE, doc |-> << >>]
             ELSE loadVariants(fs, io, baseFileName, Tail(files),
                               ObjSet(resxFiles, language, content.entries))

\* loadResxFiles
loadResxFiles(fs, io, basePath) ==
    LET baseFileName   == basename(basePath)
        defaultContent == parseResxFile(fs, io, basePath)
    IN  IF ~defaultContent.ok
        THEN [ok |-> FALSE, doc |-> << >>]
        ELSE loadVariants(fs, io, baseFileName, Keys(fs),
                          ObjSet(<< >>, Default, defaultContent.entries))

\* the keys of every table one after another, a key once for every table
\* that has it
RECURSIVE AllKeysRepeated(_)
AllKeysRepeated(tables) ==
    IF tables = << >> THEN << >>
    ELSE AllKeysRepeated(SubSeq(tables, 1, Len(tables) - 1)) \o Keys(tables[Len(tables)])

\* getHtmlForWebview, the rows: Array.from(allKeys), every key of every
\* table in order of first encounter
RECURSIVE AllKeys(_)
AllKeys(tables) ==
    IF tables = << >> THEN << >>
    ELSE LET sofar == AllKeys(SubSeq(tables, 1, Len(tables) - 1))
             ks    == Keys(tables[Len(tables)])
         IN  sofar \o SelectSeq(ks, LAMBDA k : \A i \in DOMAIN sofar : sofar[i] # k)

\* a string in a condition (`entry?.value ||`, `if (entry.comment)`): neither
\* undefined nor the empty string
Truthy(s) == s # Absent /\ s # ""

\* row[language] = entry?.value || '' for every language of resxData
rowCells(resxData, key) ==
    [i \in DOMAIN resxData |->
        [key |-> resxData[i].key,
         val |-> IF Has(resxData[i].val, key) /\ Truthy(Get(resxData[i].val, key).value)
                 THEN Get(resxData[i].val, key).value
                 ELSE ""]]

\* the <tr> elements: `key` is the key written into the handlers of the row
\* (updateValue(this, key, lang), deleteRow(key)), dsKey its data-key, cells
\* the text of its textareas as rendered
htmlRows(resxData) ==
    LET allKeys == AllKeys(Values(resxData))
    IN  [i \in DOMAIN allKeys |->
            [key |-> allKeys[i], dsKey |-> allKeys[i],
             cells |-> rowCells(resxData, allKeys[i])]]

\* getHtmlForWebview, the page script's `let data = ${JSON.stringify(...)}`
htmlData(resxData) ==
    [i \in DOMAIN resxData |->
        [key |-> resxData[i].key, val |-> FromEntries(resxData[i].val)]]

-----------------------------------------------------------------------------
(* Writing files *)

\* writeResxFile, the <data> elements built from Object.values(entries)
dataArray(entries) ==
    [i \in DOMAIN entries |->
        Node(entries[i].val.name,
             entries[i].val.value,
             IF Truthy(entries[i].val.comment) THEN entries[i].val.comment ELSE Absent)]

\* saveResxFiles: the path a language identifier of the buffer is written to
savePath(basePath, language) ==
    IF language = Default THEN basePath
    ELSE VariantPath(basename(basePath), language)

\* saveResxFiles passing over the tables that have no entry
RECURSIVE saveResxFilesSkipEmpty(_, _, _, _, _)
saveResxFilesSkipEmpty(fs, io, basePath, buffer, written) ==
    IF buffer = << >> THEN [ok |-> TRUE, fs |-> fs, written |-> written]
    ELSE LET filePath == savePath(basePath, Head(buffer).key)
         IN  IF Head(buffer).val = << >>
             THEN saveResxFilesSkipEmpty(fs, io, basePath, Tail(buffer), written)
             ELSE IF filePath \in io.ro
             THEN [ok |-> FALSE, fs |-> fs, written |-> written]
             ELSE saveResxFilesSkipEmpty(MapSet(fs, filePath, dataArray(Head(buffer).val)),
                                         io, basePath, Tail(buffer), written \cup {filePath})

\* saveResxFiles: the loop over Object.entries(data); a write that throws
\* ends the loop (ok = FALSE) with the files written so far kept
RECURSIVE saveResxFiles(_, _, _, _, _)
saveResxFiles(fs, io, basePath, buffer, written) ==
    IF buffer = << >> THEN [ok |-> TRUE, fs |-> fs, written |-> written]
    ELSE LET filePath == savePath(basePath, Head(buffer).key)
         IN  IF filePath \in io.ro
             THEN [ok |-> FALSE, fs |-> fs, written |-> written]
             ELSE saveResxFiles(MapSet(fs, filePath, dataArray(Head(buffer).val)),
                                io, basePath, Tail(buffer), written \cup {filePath})

\* addKeyToFile without its `exists` check
addKeyToFileNoCheck(fs, io, filePath, key) ==
    IF ~Has(fs, filePath) \/ filePath \in io.bad
    THEN [status |-> "rejected", fs |-> fs, written |-> {}]
    ELSE IF filePath \in io.ro
    THEN [status |-> "pending", fs |-> fs, written |-> {}]
    ELSE [status |-> "resolved",
          fs |-> MapSet(fs, filePath, Append(Get(fs, filePath), Node(key, "", Absent))),
          written |-> {filePath}]

\* addKeyToFile.  "rejected": the read or the parse failed.  "pending": the
\* write threw inside the async callback handed to parseString; the promise of
\* that callback is rejected with nobody to observe it and the promise
\* addKeyToFile returned is never settled.
addKeyToFile(fs, io, filePath, key) ==
    IF ~Has(fs, filePath) \/ filePath \in io.bad
    THEN [status |-> "rejected", fs |-> fs, written |-> {}]
    ELSE LET nodes  == Get(fs, filePath)
             exists == \E i \in DOMAIN nodes : nodes[i].name = key
         IN  IF exists
             THEN [status |-> "resolved", fs |-> fs, written |-> {}]
             ELSE IF filePath \in io.ro
             THEN [status |-> "pending", fs |-> fs, written |-> {}]
             ELSE [status |-> "resolved",
                   fs |-> MapSet(fs, filePath, Append(nodes, Node(key, "", Absent))),
                   written |-> {filePath}]

\* addNewRow going on to the next file after a promise that is rejected or
\* never settled
RECURSIVE addLoopOn(_, _, _, _, _)
addLoopOn(fs, io, paths, key, written) ==
    IF paths = << >> THEN [status |-> "resolved", fs |-> fs, written |-> written]
    ELSE LET r    == addKeyToFile(fs, io, Head(paths), key)
             rest == addLoopOn(r.fs, io, Tail(paths), key, written \cup r.written)
         IN  IF r.status # "resolved"
             THEN [status |-> r.status, fs |-> rest.fs, written |-> rest.written]
             ELSE rest

\* addNewRow, from the first file on: the base file, then every file of the
\* listing the regular expression accepts; it stops at the first promise that
\* is rejected or never settled
RECURSIVE addLoop(_, _, _, _, _)
addLoop(fs, io, paths, key, written) ==
    IF paths = << >> THEN [status |-> "resolved", fs |-> fs, written |-> written]
    ELSE LET r == addKeyToFile(fs, io, Head(paths), key)
         IN  IF r.status # "resolved"
             THEN [status |-> r.status, fs |-> r.fs, written |-> written]
             ELSE addLoop(r.fs, io, Tail(paths), key, written \cup r.written)

addNewRow(fs, io, basePath, key) ==
    addLoop(fs, io, << basePath >> \o VariantFiles(basename(basePath), Keys(fs)), key, {})

\* deleteRow, one file, removing only the first element named key
deleteFromFileFirstOnly(fs, io, filePath, key) ==
    IF ~Has(fs, filePath) \/ filePath \in io.bad
    THEN [status |-> "rejected", fs |-> fs, written |-> {}]
    ELSE LET nodes == Get(fs, filePath)
             hits  == { i \in DOMAIN nodes : nodes[i].name = key }
             first == CHOOSE i \in hits : \A j \in hits : i <= j
         IN  IF nodes = << >>
             THEN [status |-> "resolved", fs |-> fs, written |-> {}]
             ELSE IF filePath \in io.ro
             THEN [status |-> "rejected", fs |-> fs, written |-> {}]
             ELSE [status |-> "resolved",
                   fs |-> MapSet(fs, filePath,
                                 IF hits = {} THEN nodes
                                 ELSE SubSeq(nodes, 1, first - 1)
                                      \o SubSeq(nodes, first + 1, Len(nodes))),
                   written |-> {filePath}]

\* deleteRow, one file, written only when it holds an element named key
deleteFromFileIfPresent(fs, io, filePath, key) ==
    IF ~Has(fs, filePath) \/ filePath \in io.bad
    THEN [status |-> "rejected", fs |-> fs, written |-> {}]
    ELSE LET nodes == Get(fs, filePath)
         IN  IF \A i \in DOMAIN nodes : nodes[i].name # key
             THEN [status |-> "resolved", fs |-> fs, written |-> {}]
             ELSE IF filePath \in io.ro
             THEN [status |-> "rejected", fs |-> fs, written |-> {}]
             ELSE [status |-> "resolved",
                   fs |-> MapSet(fs, filePath, SelectSeq(nodes, LAMBDA d : d.name # key)),
                   written |-> {filePath}]

\* deleteRow, one file: it is written only when it has <data> elements.  A
\* write that throws does so inside the synchronous callback of parseString
\* and rejects the promise.
deleteFromFile(fs, io, filePath, key) ==
    IF ~Has(fs, filePath) \/ filePath \in io.bad
    THEN [status |-> "rejected", fs |-> fs, written |-> {}]
    ELSE LET nodes == Get(fs, filePath)
         IN  IF nodes = << >>
             THEN [status |-> "resolved", fs |-> fs, written |-> {}]
             ELSE IF filePath \in io.ro
             THEN [status |-> "rejected", fs |-> fs, written |-> {}]
             ELSE [status |-> "resolved",
                   fs |-> MapSet(fs, filePath, SelectSeq(nodes, LAMBDA d : d.name # key)),
                   written |-> {filePath}]

RECURSIVE deleteLoop(_, _, _, _, _)
deleteLoop(fs, io, paths, key, written) ==
    IF paths = << >> THEN [status |-> "resolved", fs |-> fs, written |-> written]
    ELSE LET r == deleteFromFile(fs, io, Head(paths), key)
         IN  IF r.status # "resolved"
             THEN [status |-> r.status, fs |-> r.fs, written |-> written]
             ELSE deleteLoop(r.fs, io, Tail(paths), key, written \cup r.written)

\* deleteRow over the base file alone
deleteRowBaseOnly(fs, io, basePath, key) ==
    deleteLoop(fs, io, << basePath >>, key, {})

deleteRow(fs, io, basePath, key) ==
    deleteLoop(fs, io, << basePath >> \o VariantFiles(basename(basePath), Keys(fs)), key, {})

\* updateWebview loading the family and leaving the page as it is
updateWebviewKeepPage(fs, io, basePath, buffer, trs) ==
    LET loaded == loadResxFiles(fs, io, basePath)
    IN  [ok |-> loaded.ok, data |-> buffer, rows |-> trs]

\* the buffer and the rows after updateWebview, which keeps the page as it
\* is when the load fails
updateWebview(fs, io, basePath, buffer, trs) ==
    LET loaded == loadResxFiles(fs, io, basePath)
    IN  IF loaded.ok
        THEN [ok |-> TRUE, data |-> htmlData(loaded.doc), rows |-> htmlRows(loaded.doc)]
        ELSE [ok |-> FALSE, data |-> buffer, rows |-> trs]

-----------------------------------------------------------------------------
(* The directory and the inputs *)

KeyA == <<"a">>
KeyB == <<"b">>
Key7 == <<"7">>
ResourceKeys == {KeyA, KeyB, Key7}

\* what the user may type into the input box (validateInput refuses a blank
\* string) and into a key cell
AddInputs == {<<" ", "a">>, KeyB, Key7}
KeyInputs == {KeyA, KeyB, << >>}
\* what the user may type into a value cell
ValueInputs == {"v"}


\* the <data> elements the initial files are made of
NodeA == Node(KeyA, "x", Absent)
NodeB == Node(KeyB, "y", "c")
Node7 == Node(Key7, "z", Absent)
\* no <value> child, an empty <comment> child
NodeABare == Node(KeyA, Absent, "")
\* a second element named a
NodeADup == Node(KeyA, "y", Absent)

\* the families the editing specification starts from: the <data> elements
\* of the base file and of its en-US variant
Families ==
    { << << >>, << >> >>,
      << << NodeA >>, << >> >>,
      << << NodeA >>, << NodeB, NodeA >> >>,
      << << NodeB, NodeA >>, << NodeA, Node7, NodeB >> >>,
      << << NodeA, Node7, NodeB >>, << NodeA >> >>,
      << << >>, << NodeA, Node7, NodeB >> >>,
      << << NodeABare, NodeB >>, << NodeB, NodeA >> >>,
      << << NodeA, NodeADup >>, << NodeA >> >> }

\* the members of the family of basePath in a directory
Members(fs, basePath) ==
    {basePath} \cup
    { f \in KeySet(fs) : cultureOf(basename(basePath), f) # NoMatch }

\* the failures one handler may meet: none, or one file whose read or parse
\* fails, or one file whose write fails
IoChoices(paths) ==
    {NoFault} \cup { [bad |-> {f}, ro |-> {}] : f \in paths }
              \cup { [bad |-> {}, ro |-> {f}] : f \in paths }

ReadChoices(paths) == {NoFault} \cup { [bad |-> {f}, ro |-> {}] : f \in paths }

-----------------------------------------------------------------------------
(* History *)

\* the record of an operation: what it was given (key, key2, lang, val, the
\* row of the grid it came from, the failure met by its reads and writes
\* (fault) and by the updateWebview() that follows them (loadFault)), how
\* its handler ended (ok, the error and success notifications shown, hung: it
\* awaits a promise nothing will settle), the files it wrote, the buffer and
\* the directory it started from, and whether the operation before it was a
\* successful load
Last(op, key, ok, errors, infos, hung, written) ==
    [op |-> op, key |-> key, key2 |-> << >>, lang |-> << >>, val |-> "", row |-> 0,
     fault |-> NoFault, loadFault |-> NoFault,
     ok |-> ok, errors |-> errors, infos |-> infos, hung |-> hung,
     written |-> written, data0 |-> data, disk0 |-> disk,
     prevLoad |-> last.ok /\ last.op \in {"open", "setUiLanguage", "add", "delete"}]

NoPair == [op |-> "none", a |-> << >>, b |-> << >>, data |-> << >>, disk |-> << >>]

NoDialog == [type |-> "none", key |-> << >>]

-----------------------------------------------------------------------------
(* The state machine *)

\* resolveCustomTextEditor has run: the first updateWebview() has rendered
\* the family
InitFrom(fs) ==
    LET page == updateWebview(fs, NoFault, BasePath, << >>, << >>)
    IN  /\ disk = fs
        /\ data = page.data
        /\ rows = page.rows
        /\ dialog = NoDialog
        /\ last = [op |-> "open", key |-> << >>, key2 |-> << >>, lang |-> << >>,
                    val |-> "", row |-> 0, fault |-> NoFault, loadFault |-> NoFault,
                    ok |-> TRUE, errors |-> 0, infos |-> 0, hung |-> FALSE,
                    written |-> {}, data0 |-> page.data, disk0 |-> fs, prevLoad |-> FALSE]
        /\ pair = NoPair
        /\ ops = 0

Init ==
    \E family \in Families :
        InitFrom(<< [key |-> BasePath, val |-> family[1]],
                    [key |-> EnUsPath, val |-> family[2]],
                    [key |-> NotesPath, val |-> << Node(KeyA, "n", Absent) >>] >>)

\* updateValue creating a missing entry with an empty name
updateValueNoName(buffer, key, language, v) ==
    LET d1 == IF Has(buffer, language) THEN buffer ELSE ObjSet(buffer, language, << >>)
        t1 == Get(d1, language)
        t2 == IF Has(t1, key) THEN t1
              ELSE ObjSet(t1, key, [name |-> << >>, value |-> "", comment |-> Absent])
        t3 == ObjSet(t2, key, [Get(t2, key) EXCEPT !.value = v])
    IN  ObjSet(d1, language, t3)

\* updateValue without the branch that creates a missing entry
updateValueNoCreate(buffer, key, language, v) ==
    LET d1 == IF Has(buffer, language) THEN buffer ELSE ObjSet(buffer, language, << >>)
        t1 == Get(d1, language)
    IN  IF Has(t1, key)
        THEN ObjSet(d1, language, ObjSet(t1, key, [Get(t1, key) EXCEPT !.value = v]))
        ELSE d1

\* window.updateValue(element, key, language)
updateValue(buffer, key, language, v) ==
    LET d1 == IF Has(buffer, language) THEN buffer ELSE ObjSet(buffer, language, << >>)
        t1 == Get(d1, language)
        t2 == IF Has(t1, key) THEN t1
              ELSE ObjSet(t1, key, [name |-> key, value |-> "", comment |-> Absent])
        t3 == ObjSet(t2, key, [Get(t2, key) EXCEPT !.value = v])
    IN  ObjSet(d1, language, t3)

\* the textarea of row r in the column of `language` changed to v; the key
\* is the one written into the row when it was rendered
UpdateValue(r, language, v) ==
    /\ ops < MaxOps
    /\ data' = updateValue(data, rows[r].key, language, v)
    /\ last' = [Last("setValue", rows[r].key, TRUE, 0, 0, FALSE, {})
                  EXCEPT !.lang = language, !.val = v, !.row = r]
    /\ pair' = NoPair
    /\ ops' = ops + 1
    /\ UNCHANGED <<disk, rows, dialog>>

\* updateKey leaving alone a table that has an entry under newKey
updateKeyNoOverwrite(buffer, oldKey, newKey) ==
    [i \in DOMAIN buffer |->
        IF Has(buffer[i].val, oldKey) /\ ~Has(buffer[i].val, newKey)
        THEN [buffer[i] EXCEPT !.val =
                ObjDelete(ObjSet(buffer[i].val, newKey,
                                 [Get(buffer[i].val, oldKey) EXCEPT !.name = newKey]),
                          oldKey)]
        ELSE buffer[i]]

\* updateKey without `delete data[lang][oldKey]`
updateKeyNoDelete(buffer, oldKey, newKey) ==
    [i \in DOMAIN buffer |->
        IF Has(buffer[i].val, oldKey)
        THEN [buffer[i] EXCEPT !.val =
                ObjSet(buffer[i].val, newKey,
                       [Get(buffer[i].val, oldKey) EXCEPT !.name = newKey])]
        ELSE buffer[i]]

\* updateKey copying the entry as it is, without `name: newKey`
updateKeyKeepName(buffer, oldKey, newKey) ==
    [i \in DOMAIN buffer |->
        IF Has(buffer[i].val, oldKey)
        THEN [buffer[i] EXCEPT !.val =
                ObjDelete(ObjSet(buffer[i].val, newKey, Get(buffer[i].val, oldKey)), oldKey)]
        ELSE buffer[i]]

\* window.updateKey(element), the loop over Object.keys(data)
updateKey(buffer, oldKey, newKey) ==
    [i \in DOMAIN buffer |->
        IF Has(buffer[i].val, oldKey)
        THEN [buffer[i] EXCEPT !.val =
                ObjDelete(ObjSet(buffer[i].val, newKey,
                                 [Get(buffer[i].val, oldKey) EXCEPT !.name = newKey]),
                          oldKey)]
        ELSE buffer[i]]

\* the key cell of row r changed to newKey
UpdateKey(r, newKey) ==
    LET oldKey == rows[r].dsKey
    IN  /\ ops < MaxOps
        /\ IF oldKey # newKey /\ newKey # << >>
           THEN /\ data' = updateKey(data, oldKey, newKey)
                /\ rows' = [rows EXCEPT ![r].dsKey = newKey]
                /\ pair' = IF pair.op = "rename" /\ pair.b = oldKey /\ pair.a = newKey
                           THEN [pair EXCEPT !.op = "renameBack"]
                           ELSE [op |-> "rename", a |-> oldKey, b |-> newKey,
                                 data |-> data, disk |-> << >>]
           ELSE /\ UNCHANGED <<data, rows>>
                /\ pair' = NoPair
        /\ last' = [Last("renameKey", newKey, TRUE, 0, 0, FALSE, {}) EXCEPT !.key2 = oldKey]
        /\ ops' = ops + 1
        /\ UNCHANGED <<disk, dialog>>

\* window.saveData and the 'save' case of the message handler
SaveData(io) ==
    /\ ops < MaxOps
    /\ LET r == saveResxFiles(disk, io, BasePath, data, {})
       IN  /\ disk' = r.fs
           /\ last' = [Last("save", << >>, r.ok,
                            IF r.ok THEN 0 ELSE 1, IF r.ok THEN 1 ELSE 0, FALSE, r.written)
                         EXCEPT !.fault = io]
    /\ pair' = NoPair
    /\ ops' = ops + 1
    /\ UNCHANGED <<data, rows, dialog>>

\* window.addRow and the 'requestAddRow' case up to its await of showInputBox
RequestAddRow ==
    /\ ops < MaxOps
    /\ dialog = NoDialog
    /\ dialog' = [type |-> "add", key |-> << >>]
    /\ last' = Last("requestAddRow", << >>, TRUE, 0, 0, FALSE, {})
    /\ pair' = NoPair
    /\ ops' = ops + 1
    /\ UNCHANGED <<disk, data, rows>>

\* the input box was dismissed: key is undefined and the handler returns
CancelAddRow ==
    /\ dialog.type = "add"
    /\ dialog' = NoDialog
    /\ last' = Last("cancelAddRow", << >>, TRUE, 0, 0, FALSE, {})
    /\ pair' = NoPair
    /\ UNCHANGED <<disk, data, rows, ops>>

\* the input box returned `input`: addNewRow, updateWebview, the notification
AnswerAddRow(input, io, io2) ==
    /\ dialog.type = "add"
    /\ dialog' = NoDialog
    /\ LET key  == Trim(input)
           r    == addNewRow(disk, io, BasePath, key)
           page == updateWebview(r.fs, io2, BasePath, data, rows)
           ok   == r.status = "resolved" /\ page.ok
       IN  /\ disk' = r.fs
           /\ data' = IF r.status = "resolved" THEN page.data ELSE data
           /\ rows' = IF r.status = "resolved" THEN page.rows ELSE rows
           /\ last' = [Last("add", key, ok,
                            IF r.status = "pending" \/ ok THEN 0 ELSE 1,
                            IF ok THEN 1 ELSE 0,
                            r.status = "pending", r.written)
                         EXCEPT !.fault = io, !.loadFault = io2]
           /\ pair' = IF ok
                      THEN [op |-> "add", a |-> key, b |-> << >>, data |-> << >>, disk |-> disk]
                      ELSE NoPair
    /\ UNCHANGED ops

\* window.deleteRow(key) and the 'requestDeleteRow' case up to its await of
\* showWarningMessage
RequestDeleteRow(r) ==
    /\ ops < MaxOps
    /\ dialog = NoDialog
    /\ dialog' = [type |-> "delete", key |-> rows[r].key]
    /\ last' = Last("requestDeleteRow", rows[r].key, TRUE, 0, 0, FALSE, {})
    /\ ops' = ops + 1
    /\ UNCHANGED <<disk, data, rows, pair>>

\* the confirmation was dismissed
CancelDeleteRow ==
    /\ dialog.type = "delete"
    /\ dialog' = NoDialog
    /\ last' = Last("cancelDeleteRow", dialog.key, TRUE, 0, 0, FALSE, {})
    /\ pair' = NoPair
    /\ UNCHANGED <<disk, data, rows, ops>>

\* the confirmation returned 'Delete': deleteRow, updateWebview, the notification
AnswerDeleteRow(io, io2) ==
    /\ dialog.type = "delete"
    /\ dialog' = NoDialog
    /\ LET key  == dialog.key
           r    == deleteRow(disk, io, BasePath, key)
           page == updateWebview(r.fs, io2, BasePath, data, rows)
           ok   == r.status = "resolved" /\ page.ok
       IN  /\ disk' = r.fs
           /\ data' = IF r.status = "resolved" THEN page.data ELSE data
           /\ rows' = IF r.status = "resolved" THEN page.rows ELSE rows
           /\ last' = [Last("delete", key, ok,
                            IF ok THEN 0 ELSE 1, IF ok THEN 1 ELSE 0, FALSE, r.written)
                         EXCEPT !.fault = io, !.loadFault = io2]
           /\ pair' = IF ok /\ pair.op = "add" /\ pair.a = key
                      THEN [pair EXCEPT !.op = "addDelete"]
                      ELSE NoPair
    /\ UNCHANGED ops

\* the 'setUiLanguage' case: the configuration update, then updateWebview; a
\* failed load reaches the catch of the handler
SetUiLanguage(io) ==
    /\ ops < MaxOps
    /\ LET page == updateWebview(disk, io, BasePath, data, rows)
       IN  /\ data' = page.data
           /\ rows' = page.rows
           /\ last' = [Last("setUiLanguage", << >>, page.ok,
                            IF page.ok THEN 0 ELSE 1, 0, FALSE, {})
                         EXCEPT !.loadFault = io]
    /\ pair' = NoPair
    /\ ops' = ops + 1
    /\ UNCHANGED <<disk, dialog>>

\* the files a handler may fail on
Touched == Members(disk, BasePath) \cup { savePath(BasePath, data[i].key) : i \in DOMAIN data }

Next ==
    \/ \E r \in DOMAIN rows, i \in DOMAIN data, v \in ValueInputs :
          UpdateValue(r, data[i].key, v)
    \/ \E r \in DOMAIN rows, newKey \in KeyInputs : UpdateKey(r, newKey)
    \/ \E io \in IoChoices(Touched) : SaveData(io)
    \/ RequestAddRow
    \/ CancelAddRow
    \/ \E input \in AddInputs, io \in IoChoices(Touched), io2 \in ReadChoices(Touched) :
          (io = NoFault \/ io2 = NoFault) /\ AnswerAddRow(input, io, io2)
    \/ \E r \in DOMAIN rows : RequestDeleteRow(r)
    \/ CancelDeleteRow
    \/ \E io \in IoChoices(Touched), io2 \in ReadChoices(Touched) :
          (io = NoFault \/ io2 = NoFault) /\ AnswerDeleteRow(io, io2)
    \/ \E io \in ReadChoices(Touched) : SetUiLanguage(io)

Spec == Init /\ [][Next]_vars

-----------------------------------------------------------------------------
(* The discovery specification: the directory holds the base file and up to *)
(* MaxSiblings other files, listed in any order; every file holds one       *)
(* <data> element whose value tells the files apart.                        *)

MaxSiblings == 2

SiblingValues == <<"s1", "s2", "s3", "s4", "s5", "s6", "s7", "s8", "s9", "s10", "s11">>

SiblingFile(i) == [key |-> SiblingNames[i], val |-> << Node(KeyA, SiblingValues[i], Absent) >>]

\* fs.readdirSync(dir): the files of the directory in some order
RECURSIVE Listings(_)
Listings(S) ==
    IF S = {} THEN { << >> }
    ELSE UNION { { << x >> \o l : l \in Listings(S \ {x}) } : x \in S }

InitDiscovery ==
    \E siblings \in SUBSET (DOMAIN SiblingNames) :
        /\ Cardinality(siblings) <= MaxSiblings
        /\ \E fs \in Listings({ SiblingFile(i) : i \in siblings }
                              \cup { [key |-> BasePath, val |-> << NodeA >>] }) :
              InitFrom(fs)

NextDiscovery ==
    \/ \E io \in ReadChoices(Touched) : SetUiLanguage(io)
    \/ \E io \in IoChoices(Touched) : SaveData(io)

SpecDiscovery == InitDiscovery /\ [][NextDiscovery]_vars

-----------------------------------------------------------------------------
(* The overlap specification: the awaits of the message handler are steps   *)
(* of their own, and the subscriptions of resolveCustomTextEditor deliver   *)
(* change notifications between them.                                       *)

\* the 'setUiLanguage' case up to its await of configuration.update()
BeginSetUiLanguage ==
    /\ ops < MaxOps
    /\ dialog = NoDialog
    /\ dialog' = [type |-> "config", key |-> << >>]
    /\ last' = Last("requestSetUiLanguage", << >>, TRUE, 0, 0, FALSE, {})
    /\ pair' = NoPair
    /\ ops' = ops + 1
    /\ UNCHANGED <<disk, data, rows>>

\* the 'setUiLanguage' case after the update: `await updateWebview()`
EndSetUiLanguage(io) ==
    /\ dialog.type = "config"
    /\ dialog' = NoDialog
    /\ LET page == updateWebview(disk, io, BasePath, data, rows)
       IN  /\ data' = page.data
           /\ rows' = page.rows
           /\ last' = [Last("setUiLanguage", << >>, page.ok,
                            IF page.ok THEN 0 ELSE 1, 0, FALSE, {})
                         EXCEPT !.loadFault = io]
    /\ pair' = NoPair
    /\ UNCHANGED <<disk, ops>>

\* onDidChangeConfiguration: updateWebview() is called and not awaited, a
\* rejection of it reaches nobody
ConfigurationChanged(io) ==
    /\ ops < MaxOps
    /\ LET page == updateWebview(disk, io, BasePath, data, rows)
       IN  /\ data' = page.data
           /\ rows' = page.rows
           /\ last' = [Last("configurationChanged", << >>, page.ok, 0, 0, FALSE, {})
                         EXCEPT !.loadFault = io]
    /\ pair' = NoPair
    /\ ops' = ops + 1
    /\ UNCHANGED <<disk, dialog>>

\* onDidChangeTextDocument for the document of the editor: the same
DocumentChanged(io) ==
    /\ ops < MaxOps
    /\ LET page == updateWebview(disk, io, BasePath, data, rows)
       IN  /\ data' = page.data
           /\ rows' = page.rows
           /\ last' = [Last("documentChanged", << >>, page.ok, 0, 0, FALSE, {})
                         EXCEPT !.loadFault = io]
    /\ pair' = NoPair
    /\ ops' = ops + 1
    /\ UNCHANGED <<disk, dialog>>

\* a message of the grid is taken only while no input box, confirmation or
\* configuration update is awaited; the notifications come at any time
NextOverlap ==
    \/ \E io \in IoChoices(Touched) : dialog = NoDialog /\ SaveData(io)
    \/ RequestAddRow
    \/ CancelAddRow
    \/ \E input \in AddInputs, io \in IoChoices(Touched), io2 \in ReadChoices(Touched) :
          (io = NoFault \/ io2 = NoFault) /\ AnswerAddRow(input, io, io2)
    \/ \E r \in DOMAIN rows : RequestDeleteRow(r)
    \/ CancelDeleteRow
    \/ \E io \in IoChoices(Touched), io2 \in ReadChoices(Touched) :
          (io = NoFault \/ io2 = NoFault) /\ AnswerDeleteRow(io, io2)
    \/ BeginSetUiLanguage
    \/ \E io \in ReadChoices(Touched) : EndSetUiLanguage(io)
    \/ \E io \in ReadChoices(Touched) : ConfigurationChanged(io)
    \/ \E io \in ReadChoices(Touched) : DocumentChanged(io)

SpecOverlap == Init /\ [][NextOverlap]_vars

-----------------------------------------------------------------------------
(* Properties *)

Names(nodes) == { nodes[i].name : i \in DOMAIN nodes }
NamedNodes(nodes, k) == SelectSeq(nodes, LAMBDA d : d.name = k)
UniqueNames(nodes) == \A i, j \in DOMAIN nodes : nodes[i].name = nodes[j].name => i = j
\* a table as a mapping: the set of its (key, entry) pairs
Mapping(o) == Range(o)
IsLoadOp(rec) == rec.ok /\ rec.op \in {"open", "setUiLanguage"}

\* the tag the discovery contract gives a sibling name: <base>.<tag>.resx,
\* compared without regard to case, the tag an alphabetic segment of 2-8
\* characters followed by zero or more hyphenated alphanumeric segments of
\* 2-8 characters
ContractCulture(tag) ==
    LET segs == SplitOn(tag, "-")
    IN  /\ AlphaSegment(segs[1])
        /\ \A i \in 2..Len(segs) : AlnumSegment(segs[i])

ContractTag(baseFileName, fileName) ==
    LET n    == Len(baseFileName)
        m    == Len(fileName)
        tag  == SubSeq(fileName, n + 2, m - 5)
        want == VariantPath(baseFileName, tag)
    IN  IF /\ m >= n + 7
           /\ \A i \in 1..m : ToLower(fileName[i]) = ToLower(want[i])
           /\ ContractCulture(tag)
        THEN tag
        ELSE NoMatch

\* C1: after a successful load the variant identifiers of the family are
\* "default" and the tag of every sibling named <base>.<tag>.resx, a tag of
\* a single segment (Ab.fr.resx) included, and nothing else.
C1_FamilyDiscovery ==
    IsLoadOp(last) =>
        KeySet(data) = {Default} \cup
            { ContractTag(BaseName, f) : f \in { g \in KeySet(disk) :
                                                  ContractTag(BaseName, g) # NoMatch } }

\* C2: after a successful addKey(k) on a family whose members have unique
\* keys, every member file holds exactly one element named k; where k was
\* missing the new element has an empty value and no comment, and where k
\* was present the element is the one that was there.
C2_AddKeyEveryMember ==
    (last.op = "add" /\ last.ok
        /\ \A f \in Members(last.disk0, BasePath) : UniqueNames(Get(last.disk0, f)))
    => \A f \in Members(disk, BasePath) :
          LET old == NamedNodes(Get(last.disk0, f), last.key)
              new == NamedNodes(Get(disk, f), last.key)
          IN  /\ Len(new) = 1
              /\ IF old = << >> THEN new[1] = Node(last.key, "", Absent)
                 ELSE new = old

C2_Witness ==
    /\ last.op = "add" /\ last.ok
    /\ \A f \in Members(last.disk0, BasePath) : UniqueNames(Get(last.disk0, f))
    /\ \E f, g \in Members(last.disk0, BasePath) :
          /\ last.key \in Names(Get(last.disk0, f))
          /\ last.key \notin Names(Get(last.disk0, g))
          /\ Get(disk, g) # Get(last.disk0, g)

\* C3: after a successful deleteKey(k) no member file holds an element named
\* k, and the other elements of every member are unchanged in value, comment
\* and relative order.
C3_DeleteKeyEveryMember ==
    (last.op = "delete" /\ last.ok)
    => \A f \in Members(last.disk0, BasePath) :
          /\ last.key \notin Names(Get(disk, f))
          /\ Get(disk, f) = SelectSeq(Get(last.disk0, f), LAMBDA d : d.name # last.key)

C3_Witness ==
    /\ last.op = "delete" /\ last.ok
    /\ \E f, g \in Members(last.disk0, BasePath) :
          /\ last.key \in Names(Get(last.disk0, f))
          /\ Len(Get(disk, f)) >= 2
          /\ Get(disk, f) # Get(last.disk0, f)
          /\ last.key \notin Names(Get(last.disk0, g))
          /\ Get(last.disk0, g) # << >>

\* C4 as stated: a successful deleteKey(k) writes every member file, whatever
\* the member holds.
C4_DeleteWritesEveryMember ==
    (last.op = "delete" /\ last.ok) => last.written = Members(last.disk0, BasePath)

\* C4 amended: a successful deleteKey(k) writes exactly the member files
\* that hold at least one <data> element, those without k included; a member
\* with no <data> element is not written.
C4_DeleteWritesNonEmptyMembers ==
    (last.op = "delete" /\ last.ok)
    => last.written = { f \in Members(last.disk0, BasePath) : Get(last.disk0, f) # << >> }

C4_Witness ==
    /\ last.op = "delete" /\ last.ok
    /\ \E f \in last.written : last.key \notin Names(Get(last.disk0, f))
    /\ \E f \in Members(last.disk0, BasePath) : f \notin last.written

\* C5 as stated: addKey(k) followed by deleteKey(k) leaves the key set of
\* every member as it was before the two, also when a member held k before.
C5_AddDeleteKeepsKeySets ==
    pair.op = "addDelete"
    => \A f \in Members(pair.disk, BasePath) :
          Names(Get(disk, f)) = Names(Get(pair.disk, f))

\* C5 amended: addKey(k) followed by deleteKey(k) leaves every member with
\* the key set it had before the two, less k: unchanged where k was missing,
\* without k where k was present.
C5_AddDeleteRemovesOnlyK ==
    pair.op = "addDelete"
    => \A f \in Members(pair.disk, BasePath) :
          Names(Get(disk, f)) = Names(Get(pair.disk, f)) \ {pair.a}

C5_Witness ==
    /\ pair.op = "addDelete"
    /\ \E f, g \in Members(pair.disk, BasePath) :
          /\ pair.a \notin Names(Get(pair.disk, f))
          /\ Get(pair.disk, f) # << >>
          /\ pair.a \in Names(Get(pair.disk, g))

\* C6 as stated: renameKey(a,b) followed by renameKey(b,a) restores the
\* mapping of every table that held a, an entry it had under b included.
C6_RenameBackRestores ==
    pair.op = "renameBack"
    => \A i \in DOMAIN pair.data :
          Has(pair.data[i].val, pair.a)
          => Mapping(data[i].val) = Mapping(pair.data[i].val)

\* C6 amended: renameKey(a,b) followed by renameKey(b,a) restores the
\* mapping of every table that held a and held no entry under b.
C6_RenameBackRestoresWithoutB ==
    pair.op = "renameBack"
    => \A i \in DOMAIN pair.data :
          (Has(pair.data[i].val, pair.a) /\ ~Has(pair.data[i].val, pair.b))
          => Mapping(data[i].val) = Mapping(pair.data[i].val)

C6_Witness ==
    /\ pair.op = "renameBack"
    /\ \E i, j \in DOMAIN pair.data :
          /\ Has(pair.data[i].val, pair.a)
          /\ ~Has(pair.data[i].val, pair.b)
          /\ Has(pair.data[j].val, pair.a)
          /\ Has(pair.data[j].val, pair.b)
          /\ data[j] # pair.data[j]

\* C7: after setValue(variant, key, v) the table of the variant has an entry
\* under key with value v and name key, in the place and with the comment it
\* had when it existed; every other entry of the table and every other table
\* is unchanged.  On a buffer without the variant the table is created.
C7_SetValueOneTable ==
    /\ last.op = "setValue"
       => LET t0 == Get(last.data0, last.lang)
              t1 == Get(data, last.lang)
          IN  /\ Has(t1, last.key)
              /\ Get(t1, last.key).value = last.val
              /\ Get(t1, last.key).name = last.key
              /\ Has(t0, last.key)
                 => /\ IndexOf(t1, last.key) = IndexOf(t0, last.key)
                    /\ Get(t1, last.key).comment = Get(t0, last.key).comment
              /\ \A k \in KeySet(t0) \cup KeySet(t1) :
                    k # last.key => Has(t0, k) /\ Has(t1, k) /\ Get(t1, k) = Get(t0, k)
              /\ Keys(data) = Keys(last.data0)
              /\ \A i \in DOMAIN data :
                    data[i].key # last.lang => data[i] = last.data0[i]
    /\ \A k \in ResourceKeys, v \in ValueInputs :
          updateValue(data, k, <<"f","r">>, v) =
             Append(data, [key |-> <<"f","r">>,
                           val |-> << [key |-> k,
                                       val |-> [name |-> k, value |-> v,
                                                comment |-> Absent]] >>])

C7_Witness ==
    /\ last.op = "setValue"
    /\ last.lang = EnUs
    /\ ~Has(Get(last.data0, EnUs), last.key)
    /\ Has(Get(last.data0, Default), last.key)
    /\ Get(data, EnUs) # Get(last.data0, EnUs)

\* C8: after renameKey(oldKey, newKey) with newKey non-empty and different
\* from oldKey, every table that held oldKey has under newKey the entry
\* oldKey had, its name now newKey, and nothing under oldKey; the other
\* tables are unchanged.  With newKey empty or equal to oldKey nothing
\* changes.
C8_RenameKey ==
    last.op = "renameKey"
    => IF last.key # << >> /\ last.key # last.key2
       THEN /\ Keys(data) = Keys(last.data0)
            /\ \A i \in DOMAIN data :
                  LET t0 == last.data0[i].val
                      t1 == data[i].val
                  IN  IF Has(t0, last.key2)
                      THEN /\ Has(t1, last.key)
                           /\ Get(t1, last.key) = [Get(t0, last.key2) EXCEPT !.name = last.key]
                           /\ ~Has(t1, last.key2)
                      ELSE t1 = t0
       ELSE data = last.data0

C8_Witness ==
    /\ last.op = "renameKey"
    /\ last.key # << >> /\ last.key # last.key2
    /\ \E i, j \in DOMAIN last.data0 :
          /\ Has(last.data0[i].val, last.key2)
          /\ Get(last.data0[i].val, last.key2).comment = "c"
          /\ ~Has(last.data0[j].val, last.key2)

\* a family every member of which has unique names and a <value> child in
\* every <data> element
WellFormed(fs, basePath) ==
    \A f \in Members(fs, basePath) :
       /\ UniqueNames(Get(fs, f))
       /\ \A i \in DOMAIN Get(fs, f) : Get(fs, f)[i].value # Absent

\* C9: a save that follows a load at once, the buffer unmodified, leaves
\* every member file of a well-formed family with the <data> elements it
\* had, and writes the member files and no other.
C9_LoadSaveRoundTrip ==
    (last.op = "save" /\ last.ok /\ last.prevLoad /\ WellFormed(last.disk0, BasePath))
    => /\ \A f \in Members(last.disk0, BasePath) : Get(disk, f) = Get(last.disk0, f)
       /\ last.written = Members(last.disk0, BasePath)

\* C10: a handler of save, add key, delete key or set UI language in which a
\* read, a parse or a write failed has shown the error notification once,
\* has not shown the success notification, and has ended.
C10_FailureSurfaces ==
    (last.op \in {"save", "add", "delete", "setUiLanguage"} /\ ~last.ok)
    => last.errors = 1 /\ last.infos = 0 /\ ~last.hung

\* the handler that awaits: none, or the one that opened the input box, the
\* confirmation or the configuration update
AwaitingOp ==
    CASE dialog.type = "add"    -> "requestAddRow"
      [] dialog.type = "delete" -> "requestDeleteRow"
      [] dialog.type = "config" -> "requestSetUiLanguage"
      [] OTHER                  -> "none"

\* C11: while a handler awaits the input box, the confirmation or the
\* configuration update, nothing else has run: the last operation that
\* read files, wrote files or rendered the webview is the awaiting handler's
\* own request.
C11_NoOverlap ==
    dialog.type # "none" => last.op = AwaitingOp

\* C12: a load in which the read or the parse of the base file or of a
\* variant file fails yields no table at all, and the handler that asked
\* for it fails and leaves the edit buffer as it was.
C12_LoadAllOrNothing ==
    /\ \A f \in Members(disk, BasePath) :
          loadResxFiles(disk, [bad |-> {f}, ro |-> {}], BasePath)
             = [ok |-> FALSE, doc |-> << >>]
    /\ (/\ last.op \in {"setUiLanguage", "add", "delete"}
        /\ last.loadFault.bad \cap Members(disk, BasePath) # {})
       => ~last.ok /\ last.infos = 0 /\ data = last.data0

C12_Witness ==
    /\ last.op = "setUiLanguage"
    /\ last.loadFault.bad = {EnUsPath}
    /\ ~last.ok
    /\ Get(disk, BasePath) # << >>
    /\ Get(disk, EnUsPath) # << >>

\* the handlers that end with a render of the family on disk
Rendered == last.ok /\ last.op \in {"open", "setUiLanguage", "add", "delete"}

\* the member tables of the family on disk, default first
MemberTables == loadResxFiles(disk, NoFault, BasePath).doc

\* where key k is first met: the first table that has it and its place there
FirstTable(tables, k) ==
    CHOOSE t \in DOMAIN tables :
        Has(tables[t].val, k) /\ \A u \in 1..(t - 1) : ~Has(tables[u].val, k)

Before(tables, k1, k2) ==
    LET t1 == FirstTable(tables, k1)
        t2 == FirstTable(tables, k2)
    IN  \/ t1 < t2
        \/ t1 = t2 /\ IndexOf(tables[t1].val, k1) < IndexOf(tables[t1].val, k2)

\* C13: the rendered grid has one row for every key of the union of the
\* member tables' keys and no other, the rows in order of first encounter
\* (default table first), and the cell of a row for a variant holds the
\* variant's value for the key, or "" when the variant has no entry.
C13_Merge ==
    Rendered =>
       LET tables == MemberTables
       IN  /\ { rows[i].key : i \in DOMAIN rows }
                 = UNION { KeySet(tables[t].val) : t \in DOMAIN tables }
           /\ \A i, j \in DOMAIN rows :
                 i < j => rows[i].key # rows[j].key
                          /\ Before(tables, rows[i].key, rows[j].key)
           /\ \A i \in DOMAIN rows :
                 /\ DOMAIN rows[i].cells = DOMAIN tables
                 /\ \A t \in DOMAIN tables :
                       /\ rows[i].cells[t].key = tables[t].key
                       /\ rows[i].cells[t].val =
                             IF Has(tables[t].val, rows[i].key)
                             THEN Get(tables[t].val, rows[i].key).value
                             ELSE ""

C13_Witness ==
    /\ Rendered
    /\ Len(rows) >= 3
    /\ \E i \in DOMAIN rows :
          /\ rows[i].cells[1].val = ""
          /\ rows[i].cells[2].val # ""
    /\ \E i \in DOMAIN rows :
          /\ rows[i].cells[1].val # ""
          /\ rows[i].cells[2].val # ""

\* C14: a value edit in a row that was renamed from a to b since it was
\* rendered goes to the entry under b of the variant's table, and leaves the
\* table without an entry under a.
C14_EditAfterRename ==
    (last.op = "setValue" /\ rows[last.row].dsKey # rows[last.row].key)
    => LET t == Get(data, last.lang)
       IN  /\ Has(t, rows[last.row].dsKey)
           /\ Get(t, rows[last.row].dsKey).value = last.val
           /\ ~Has(t, rows[last.row].key)

\* the files of a multi-file operation in the order it takes them: the base
\* file and then the variants as the directory lists them for add and
\* delete, the tables of the buffer in their order for save
ProcessingOrder ==
    IF last.op = "save"
    THEN [i \in DOMAIN last.data0 |-> savePath(BasePath, last.data0[i].key)]
    ELSE << BasePath >> \o VariantFiles(BaseName, Keys(last.disk0))

\* the operation cannot get past file f: it cannot read or parse it, or it
\* has to write it and cannot
FailsAt(f) ==
    LET nodes == Get(last.disk0, f)
    IN  CASE last.op = "add" ->
               f \in last.fault.bad \/ (f \in last.fault.ro /\ last.key \notin Names(nodes))
          [] last.op = "delete" ->
               f \in last.fault.bad \/ (f \in last.fault.ro /\ nodes # << >>)
          [] OTHER -> f \in last.fault.ro

\* the content file f has when the operation got past it
Applied(f) ==
    LET nodes == Get(last.disk0, f)
    IN  CASE last.op = "add" ->
               IF last.key \in Names(nodes) THEN nodes
               ELSE Append(nodes, Node(last.key, "", Absent))
          [] last.op = "delete" -> SelectSeq(nodes, LAMBDA d : d.name # last.key)
          [] OTHER ->
               LET i == CHOOSE j \in DOMAIN last.data0 :
                            savePath(BasePath, last.data0[j].key) = f
               IN  dataArray(last.data0[i].val)

\* C15: an add, delete or save that fails at a member has applied the
\* change to the members before it in processing order, which keep it,
\* and has changed neither the failing member nor any member after it.
C15_PartialFailure ==
    (last.op \in {"add", "delete", "save"})
    => LET order == ProcessingOrder
       IN  \A n \in DOMAIN order :
              (FailsAt(order[n]) /\ \A m \in 1..(n - 1) : ~FailsAt(order[m]))
              => /\ ~last.ok
                 /\ \A m \in 1..(n - 1) : Get(disk, order[m]) = Applied(order[m])
                 /\ \A m \in n..Len(order) : Get(disk, order[m]) = Get(last.disk0, order[m])

C15_Witness ==
    /\ last.op = "add"
    /\ ~last.ok
    /\ FailsAt(EnUsPath)
    /\ last.key \in Names(Get(disk, BasePath))
    /\ last.key \notin Names(Get(last.disk0, BasePath))
    /\ last.key \notin Names(Get(disk, EnUsPath))

\* C16: a successful save writes, for every variant of the buffer, the file
\* the variant was loaded from: every file written is a member of the
\* family that was in the directory, and the directory has no new file.
C16_SaveWritesLoadedFiles ==
    (last.op = "save" /\ last.ok)
    => /\ last.written \subseteq Members(last.disk0, BasePath)
       /\ KeySet(disk) = KeySet(last.disk0)

\* C17: every entry of every table of the edit buffer has the name of the
\* key it is stored under, and a member file written by save holds, in the
\* order of its table, one element named after each key of the table.
C17_EntryNameIsKey ==
    /\ \A i \in DOMAIN data : \A j \in DOMAIN data[i].val :
          data[i].val[j].val.name = data[i].val[j].key
    /\ (last.op = "save" /\ last.ok)
       => \A i \in DOMAIN data :
             LET nodes == Get(disk, savePath(BasePath, data[i].key))
             IN  [n \in DOMAIN nodes |-> nodes[n].name] = Keys(data[i].val)

C17_Witness ==
    /\ last.op = "save" /\ last.ok
    /\ \E i \in DOMAIN data :
          \E k \in KeySet(data[i].val) :
             /\ k \notin Names(Get(last.disk0, savePath(BasePath, data[i].key)))
             /\ k \in Names(Get(disk, savePath(BasePath, data[i].key)))

FilesUnique == \A f \in Members(disk, BasePath) : UniqueNames(Get(disk, f))

BufferUnique ==
    \A i \in DOMAIN data : \A j, k \in DOMAIN data[i].val :
        data[i].val[j].val.name = data[i].val[k].val.name => j = k

\* C18: when the member files of the family the editor is opened on have
\* unique entry names, then after any sequence of operations every member
\* file and every table of the edit buffer has unique entry names.
C18_KeysStayUnique ==
    (FilesUnique /\ BufferUnique) => [](FilesUnique /\ BufferUnique)

C18_Witness ==
    /\ FilesUnique /\ BufferUnique
    /\ last.op = "add" /\ last.ok
    /\ \A f \in Members(last.disk0, BasePath) : UniqueNames(Get(last.disk0, f))
    /\ \E f \in Members(last.disk0, BasePath) : last.key \in Names(Get(last.disk0, f))
    /\ \E i \in DOMAIN last.data0 : Mapping(last.data0[i].val) # Mapping(data[i].val)

\* C19: renameKey(oldKey, newKey) on a table that has both keys puts
\* oldKey's value and comment under newKey, whose own value is lost, and
\* removes oldKey, with no notification; a table that has newKey and not
\* oldKey is unchanged.
C19_RenameOntoExisting ==
    (last.op = "renameKey" /\ last.key # << >> /\ last.key # last.key2)
    => /\ last.ok /\ last.errors = 0 /\ last.infos = 0
       /\ \A i \in DOMAIN last.data0 :
             LET t0 == last.data0[i].val
                 t1 == data[i].val
             IN  /\ (Has(t0, last.key2) /\ Has(t0, last.key))
                    => /\ Get(t1, last.key).value = Get(t0, last.key2).value
                       /\ Get(t1, last.key).comment = Get(t0, last.key2).comment
                       /\ ~Has(t1, last.key2)
                       /\ KeySet(t1) = KeySet(t0) \ {last.key2}
                 /\ (Has(t0, last.key) /\ ~Has(t0, last.key2)) => t1 = t0

C19_Witness ==
    /\ last.op = "renameKey" /\ last.key # << >> /\ last.key # last.key2
    /\ \E i, j \in DOMAIN last.data0 :
          /\ Has(last.data0[i].val, last.key2)
          /\ Has(last.data0[i].val, last.key)
          /\ Get(last.data0[i].val, last.key).value # Get(last.data0[i].val, last.key2).value
          /\ Has(last.data0[j].val, last.key)
          /\ ~Has(last.data0[j].val, last.key2)

\* the table a member file stands for: one entry for every name, from the
\* last element of that name, a missing value or comment read as ""
TableOf(nodes) ==
    { [key |-> nodes[n].name,
       val |-> [name    |-> nodes[n].name,
                value   |-> IF nodes[n].value = Absent THEN "" ELSE nodes[n].value,
                comment |-> IF nodes[n].comment = Absent THEN "" ELSE nodes[n].comment]] :
      n \in { m \in DOMAIN nodes :
                 \A h \in (m + 1)..Len(nodes) : nodes[h].name # nodes[m].name } }

\* the buffer holds the tables of the member files of directory fs
BufferIsDisk(buffer, fs) ==
    LET order == << BasePath >> \o VariantFiles(BaseName, Keys(fs))
    IN  /\ DOMAIN buffer = DOMAIN order
        /\ \A i \in DOMAIN order :
              /\ buffer[i].key = IF i = 1 THEN Default
                                 ELSE tryGetCultureFromResxFileName(BaseName, order[i])
              /\ Mapping(buffer[i].val) = TableOf(Get(fs, order[i]))

\* C20: when an add-key or delete-key request has succeeded, the success
\* notification has been shown, and the edit buffer and the grid are those
\* of the member files as the request left them: what the buffer held
\* before the request and was not saved is gone.
C20_RerenderAfterMutation ==
    (last.op \in {"add", "delete"} /\ last.ok)
    => /\ last.infos = 1 /\ last.errors = 0
       /\ BufferIsDisk(data, disk)
       /\ \A i \in DOMAIN rows : rows[i].dsKey = rows[i].key
       /\ { rows[i].key : i \in DOMAIN rows }
             = UNION { Names(Get(disk, f)) : f \in Members(disk, BasePath) }

C20_Witness ==
    /\ last.op \in {"add", "delete"} /\ last.ok
    /\ ~BufferIsDisk(last.data0, last.disk0)
    /\ disk # last.disk0

\* the files a save of `buffer` writes: one for every table of the buffer
SaveTargets(buffer) == { savePath(BasePath, buffer[i].key) : i \in DOMAIN buffer }

\* C21: setting a value and renaming a key leave every file of the directory
\* as it was and cannot fail; the directory changes only in a save, an add
\* key or a delete key.  A save writes files of the tables of the buffer
\* only, all of them when it succeeds, each with the elements of its table,
\* and every other file of the directory is as it was.
C21_EditsAndSaveFrame ==
    /\ last.op \in {"setValue", "renameKey"}
          => disk = last.disk0 /\ last.written = {} /\ last.ok /\ last.errors = 0
    /\ disk # last.disk0 => last.op \in {"save", "add", "delete"}
    /\ last.op = "save"
          => /\ last.written \subseteq SaveTargets(last.data0)
             /\ last.ok => last.written = SaveTargets(last.data0)
             /\ \A i \in DOMAIN last.data0 :
                   savePath(BasePath, last.data0[i].key) \in last.written
                   => Get(disk, savePath(BasePath, last.data0[i].key))
                         = dataArray(last.data0[i].val)
             /\ KeySet(disk) = KeySet(last.disk0) \cup last.written
             /\ \A f \in KeySet(last.disk0) \ last.written :
                   Get(disk, f) = Get(last.disk0, f)

\* a successful save of a buffer that an edit had changed, one of whose
\* tables is empty, in a directory that holds a file of another family
C21_Witness ==
    /\ last.op = "save" /\ last.ok
    /\ ~BufferIsDisk(last.data0, last.disk0)
    /\ disk # last.disk0
    /\ \E i \in DOMAIN last.data0 : last.data0[i].val = << >>
    /\ Has(disk, NotesPath) /\ NotesPath \notin last.written

\* the elements of a file that give their name its entry: a later element
\* of the same name replaces the entry of an earlier one
Deciding(nodes) ==
    { n \in DOMAIN nodes : \A h \in (n + 1)..Len(nodes) : nodes[h].name # nodes[n].name }

\* C22: after a load, the entry of every <data> element of every member
\* file has the element's value, or the empty string when the element has
\* no <value> child, and has the element's comment, or no comment (not the
\* empty string) when the element has no <comment> child.
C22_ParseDefaults ==
    (IsLoadOp(last) /\ last.ok)
    => \A i \in DOMAIN data :
          LET nodes == Get(disk, savePath(BasePath, data[i].key))
          IN  \A n \in Deciding(nodes) :
                 LET e == Get(data[i].val, nodes[n].name)
                 IN  /\ e.value = IF nodes[n].value = Absent THEN "" ELSE nodes[n].value
                     /\ e.comment = nodes[n].comment

\* the file <base>.default.resx
DefaultNamedPath == VariantPath(BaseName, Default)

\* C23: no file name of the directory gives the identifier "default": the
\* family has one table under "default", its first, which after a load is
\* the table of the base file, and a save writes that table, and no other,
\* to the base file.
C23_NoVariantIsDefault ==
    /\ \A f \in KeySet(disk) : cultureOf(BaseName, f) # Default
    /\ tryGetCultureFromResxFileName(BaseName, DefaultNamedPath) = NoMatch
    /\ \A i \in DOMAIN data : data[i].key = Default <=> i = 1
    /\ IsLoadOp(last) => Mapping(data[1].val) = TableOf(Get(disk, BasePath))
    /\ last.op = "save"
          => /\ \A i \in DOMAIN last.data0 :
                   savePath(BasePath, last.data0[i].key) = BasePath <=> i = 1
             /\ BasePath \in last.written
                   => Get(disk, BasePath) = dataArray(last.data0[1].val)

\* a family with a variant was loaded from a directory that holds
\* <base>.default.resx and was saved: that file is as it was, and the base
\* file holds what it held
C23_Witness ==
    /\ last.op = "save" /\ last.ok
    /\ Len(last.data0) >= 2
    /\ Has(last.disk0, DefaultNamedPath)
    /\ Get(disk, DefaultNamedPath) = Get(last.disk0, DefaultNamedPath)
    /\ Get(disk, BasePath) = << NodeA >>
    /\ Get(disk, DefaultNamedPath) # Get(disk, BasePath)

=============================================================================
